---- MODULE Spec2Model ----
(***************************************************************************)
(* Phoenix TTS (src/main.py): the synthesis-dispatch-and-playback pipeline. *)
(*                                                                         *)
(* Threads of the program:                                                 *)
(*   - the interaction (GUI) thread: runs handle_input, play_audio_output  *)
(*     and closeEvent, one at a time, from the Qt event loop;              *)
(*   - the daemon thread of init_kokoro, which runs load_kokoro;           *)
(*   - one TTSThread per dispatched utterance;                             *)
(*   - the AudioThread playback worker.                                    *)
(* audio_ready is emitted in a TTSThread and its slot play_audio_output is *)
(* a method of the TTSApp widget, which lives in the GUI thread: the       *)
(* connection is queued, so the slot runs in the GUI thread, in the order  *)
(* of the emissions.                                                       *)
(***************************************************************************)
EXTENDS Integers, Sequences, FiniteSets, TLC

\* ------------------------------------------------------------------ bounds
MaxUtter == 3        \* utterances logged in one run

\* ------------------------------------------------------------------ text
\* A text is a sequence of characters; a character is a one-character string.
WordChars  == {"a"}                         \* \w
SpaceChars == {" "}                         \* \s
PunctChars == {".", ",", "!", "?", "\"", "'"}
OtherChars == {"<", "%"}                    \* everything the pattern removes

IsSpace(c) == c \in SpaceChars

\* re.sub(r'[^\w\s.,!?"\']', '', text) keeps a character iff it is in the class
Allowed(c) == c \in WordChars \cup SpaceChars \cup PunctChars

RECURSIVE LStrip(_)
LStrip(s) == IF s # <<>> /\ IsSpace(Head(s)) THEN LStrip(Tail(s)) ELSE s

RECURSIVE RStrip(_)
RStrip(s) ==
    IF s # <<>> /\ IsSpace(s[Len(s)]) THEN RStrip(SubSeq(s, 1, Len(s) - 1)) ELSE s

\* mutant: the text is not stripped
Strip_Off(s) == s

\* str.strip()
Strip(s) == RStrip(LStrip(s))

\* mutant: the substitution left out
ReSub_Off(s) == s

ReSub(s) == SelectSeq(s, Allowed)

\* the two lines of handle_input that compute the text it acts on
Sanitize(s) == ReSub(Strip(s))

\* what the user may have typed in text_input when Return is pressed: nothing,
\* a space, a plain word, a word with a space to strip and a character to remove
Inputs ==
    { <<>>, <<" ">>, <<"a">>, <<" ", "a", "<">> }

NoInput == <<"\n">>   \* no Return pressed yet

\* ------------------------------------------------------------------ voices
\* the voice bank of the model (voices-v1.0.bin): names get_voice_style knows
Bank == {"af", "am"}

\* voices-list.txt as load_voices returns it (missing file: the empty list)
Catalogs == { <<>>, <<"af", "am">>, <<"af", "zz">> }

\* json.load of a text that holds no JSON object key
EmptyDict == [k \in {} |-> 0]

\* config.json as startup may find it: absent; text that is no JSON (empty,
\* truncated); bytes that are no UTF-8 text; JSON that is a list, not an
\* object; an object as save_config writes it
ConfigFiles ==
    { [kind |-> "absent",   data |-> EmptyDict],
      [kind |-> "bad_json", data |-> EmptyDict],
      [kind |-> "bad_utf8", data |-> EmptyDict],
      [kind |-> "list",     data |-> EmptyDict],
      [kind |-> "object",   data |-> [voice1 |-> "am", voice2 |-> "af", blend |-> 30]] }

\* TTSApp.load_config: open() raises FileNotFoundError and json.load raises
\* JSONDecodeError, both caught: {}. Otherwise what json.load returns
load_config(f) ==
    IF f.kind \in {"absent", "bad_json"} THEN EmptyDict ELSE f.data

\* startup ends with an exception that nothing catches: reading bytes that are
\* no UTF-8 raises UnicodeDecodeError in load_config (not a JSONDecodeError),
\* and init_ui calls self.config.get on what json.load returned, which a list
\* does not have
StartupRaises(f) == f.kind \in {"bad_utf8", "list"}

\* dict.get(key, default)
Get(d, key, default) == IF key \in DOMAIN d THEN d[key] ELSE default

\* QComboBox.addItems(items) followed by setCurrentText(text) on a combo that is
\* not editable: the current item becomes the one whose text matches, and
\* stays the first item (or no item: "") when there is no match
ComboText(items, text) ==
    IF \E i \in 1..Len(items) : items[i] = text THEN text
    ELSE IF items # <<>> THEN items[1] ELSE ""

VARIABLES
    kokoro,          \* TTSApp.kokoro: "None" until load_kokoro has assigned it
    voices,          \* TTSApp.voices
    config_file,     \* content of config.json
    voice1_combo,    \* voice1_combo.currentText()
    voice2_combo,    \* voice2_combo.currentText()
    blend_slider,    \* blend_slider.value()
    lastSubmit,      \* text of text_input at the latest returnPressed
    log,             \* the lines handle_input appended to the log, in order
    tts,             \* the TTSThreads started, in order of creation
    events,          \* queued audio_ready deliveries pending in the GUI thread
    uiErrors,        \* exceptions that left a slot of the GUI thread
    ui,              \* what the GUI thread is doing
    audio_queue,     \* AudioThread.audio_queue
    unfinished,      \* audio_queue.unfinished_tasks
    running,         \* AudioThread.running
    audio_pc,        \* position of AudioThread.run
    cur,             \* the buffer run() got from the queue (0: none)
    device,          \* the buffer the output device is playing (0: idle)
    overlap,         \* a play call began while the device was playing
    enqueued,        \* the buffers passed to add_to_queue, in order
    late,            \* the buffers passed to add_to_queue with running false
    plays,           \* the buffers passed to sd.play, in order
    stopPlays        \* the number of play calls made when stop() cleared
                     \* running (-1: stop() not called)

vars == << kokoro, voices, config_file, voice1_combo, voice2_combo, blend_slider,
           lastSubmit, log, tts, events, uiErrors, ui,
           audio_queue, unfinished, running, audio_pc, cur, device, overlap,
           enqueued, late, plays, stopPlays >>

prefVars  == << voices, config_file, voice1_combo, voice2_combo, blend_slider >>
audioVars == << audio_queue, unfinished, running, audio_pc, cur, device, overlap,
                enqueued, late, plays, stopPlays >>

\* TTSApp.__init__: load_voices, load_config, init_ui, init_kokoro (the load
\* runs in the background), AudioThread() and its start(). When load_config or
\* init_ui raises, the constructor is left before any thread is started and
\* the program ends: ui = "crashed"
Init ==
    /\ kokoro = "None"
    /\ voices \in Catalogs
    /\ config_file \in ConfigFiles
    /\ lastSubmit = NoInput
    /\ log = <<>>
    /\ tts = <<>>
    /\ events = <<>>
    /\ uiErrors = <<>>
    /\ audio_queue = <<>>
    /\ unfinished = 0
    /\ cur = 0
    /\ device = 0
    /\ overlap = FALSE
    /\ enqueued = <<>>
    /\ late = {}
    /\ plays = <<>>
    /\ stopPlays = -1
    /\ IF StartupRaises(config_file)
       THEN /\ voice1_combo = ""
            /\ voice2_combo = ""
            /\ blend_slider = 0
            /\ ui = "crashed"
            /\ running = FALSE
            /\ audio_pc = "unstarted"
       ELSE /\ voice1_combo =
                 ComboText(voices, Get(load_config(config_file), "voice1",
                                       IF voices # <<>> THEN voices[1] ELSE ""))
            /\ voice2_combo =
                 ComboText(voices, Get(load_config(config_file), "voice2",
                                       IF Len(voices) > 1 THEN voices[2] ELSE ""))
            /\ blend_slider = Get(load_config(config_file), "blend", 50)
            /\ ui = "loop"
            /\ running = TRUE
            /\ audio_pc = "check"

\* ------------------------------------------------------------ load_kokoro
load_kokoro ==
    /\ ui # "crashed"             \* init_kokoro has started the thread
    /\ kokoro = "None"
    /\ kokoro' = "Ready"
    /\ UNCHANGED << prefVars, lastSubmit, log, tts, events, uiErrors, ui, audioVars >>

\* ------------------------------------------------------- external model
\* Kokoro.get_voice_style(name): the style vector of a voice of the bank
\* (an unknown name raises)
get_voice_style(name) ==
    CASE name = "af" -> << 100, 0 >>
      [] name = "am" -> << 0, 200 >>

\* blend = blend_value / 100; blended_voice = voice1 * blend + voice2 * (1 - blend)
\* in exact arithmetic, as a hundred times the blended vector so that the model
\* stays in the integers: 100 * blended[k] = voice1[k] * b + voice2[k] * (100 - b)
Blend100(voice1, voice2, blend_value) ==
    [k \in 1..Len(voice1) |->
        voice1[k] * blend_value + voice2[k] * (100 - blend_value)]

\* ------------------------------------------------- AudioThread.add_to_queue
\* mutant: a bounded queue, Queue(maxsize=1): put blocks while it is full
add_to_queue_Bounded(b) ==
    /\ Len(audio_queue) < 1
    /\ audio_queue' = Append(audio_queue, b)
    /\ unfinished' = unfinished + 1
    /\ enqueued' = Append(enqueued, b)
    /\ late' = IF running THEN late ELSE late \cup {b}

add_to_queue(b) ==
    /\ audio_queue' = Append(audio_queue, b)      \* Queue.put, unbounded
    /\ unfinished' = unfinished + 1
    /\ enqueued' = Append(enqueued, b)
    /\ late' = IF running THEN late ELSE late \cup {b}

\* --------------------------------------------------------- TTSApp.play_audio
\* Runs inside handle_input, after log_text. text is the sanitized text.
play_audio(text) ==
    IF kokoro = "None"
    THEN \* self.kokoro.get_voice_style: attribute access on None raises
         /\ uiErrors' = Append(uiErrors,
                               [utt |-> Len(log) + 1, cause |-> "AttributeError"])
         /\ tts' = tts
    ELSE IF voice1_combo \notin Bank \/ voice2_combo \notin Bank
    THEN \* get_voice_style raises on a name the bank does not hold
         /\ uiErrors' = Append(uiErrors,
                               [utt |-> Len(log) + 1, cause |-> "KeyError"])
         /\ tts' = tts
    ELSE /\ tts' = Append(tts, [utt         |-> Len(log) + 1,
                                text        |-> text,
                                voice1      |-> get_voice_style(voice1_combo),
                                voice2      |-> get_voice_style(voice2_combo),
                                blend_value |-> blend_slider,
                                blended     |-> <<>>,
                                st          |-> "running"])
         /\ uiErrors' = uiErrors

\* -------------------------------------------------------- TTSApp.handle_input
\* returnPressed with t in text_input
handle_input(t) ==
    /\ ui = "loop"
    /\ lastSubmit' = t
    /\ LET text == Sanitize(t) IN
         IF text # <<>>
         THEN /\ Len(log) < MaxUtter
              /\ log' = Append(log, text)            \* log_text
              /\ play_audio(text)
         ELSE UNCHANGED << log, tts, uiErrors >>
    /\ UNCHANGED << kokoro, prefVars, events, ui, audioVars >>

\* --------------------------------------------------------------- TTSThread.run
\* the blend is computed from the values the thread was constructed with and
\* given to kokoro.create (blended records it); create returns and audio_ready
\* is emitted: the delivery is queued for the GUI thread; the buffer of thread
\* i is named i
\* mutant: run() reads the slider when it runs instead of the value it was
\* constructed with
TTSRun_Live(i) ==
    /\ tts[i].st = "running"
    /\ tts' = [tts EXCEPT ![i].st = "finished",
                          ![i].blended = Blend100(tts[i].voice1, tts[i].voice2,
                                                  blend_slider)]
    /\ events' = Append(events, i)
    /\ UNCHANGED << kokoro, prefVars, lastSubmit, log, uiErrors, ui, audioVars >>

TTSRun(i) ==
    /\ tts[i].st = "running"
    /\ tts' = [tts EXCEPT ![i].st = "finished",
                          ![i].blended = Blend100(tts[i].voice1, tts[i].voice2,
                                                  tts[i].blend_value)]
    /\ events' = Append(events, i)
    /\ UNCHANGED << kokoro, prefVars, lastSubmit, log, uiErrors, ui, audioVars >>

\* mutant: the emit sits in a finally clause and runs after a failure too
TTSRunError_Emit(i) ==
    /\ tts[i].st = "running"
    /\ tts' = [tts EXCEPT ![i].st = "failed"]
    /\ events' = Append(events, i)
    /\ UNCHANGED << kokoro, prefVars, lastSubmit, log, uiErrors, ui, audioVars >>

\* kokoro.create raises: the except clause prints, nothing is emitted
TTSRunError(i) ==
    /\ tts[i].st = "running"
    /\ tts' = [tts EXCEPT ![i].st = "failed"]
    /\ UNCHANGED << kokoro, prefVars, lastSubmit, log, events, uiErrors, ui,
                    audioVars >>

\* ------------------------------------------------- TTSApp.play_audio_output
\* mutant: a direct connection: the slot runs in the emitting TTSThread, also
\* while the GUI thread is inside closeEvent
play_audio_output_Direct ==
    /\ events # <<>>
    /\ add_to_queue(Head(events))
    /\ events' = Tail(events)
    /\ UNCHANGED << kokoro, prefVars, lastSubmit, log, tts, uiErrors, ui,
                    running, audio_pc, cur, device, overlap, plays, stopPlays >>

\* the GUI thread delivers the oldest queued audio_ready emission
play_audio_output ==
    /\ ui \in {"loop", "closed"}
    /\ events # <<>>
    /\ add_to_queue(Head(events))
    /\ events' = Tail(events)
    /\ UNCHANGED << kokoro, prefVars, lastSubmit, log, tts, uiErrors, ui,
                    running, audio_pc, cur, device, overlap, plays, stopPlays >>

\* -------------------------------------------------------------- AudioThread.run
pipeVars == << kokoro, prefVars, lastSubmit, log, tts, events, uiErrors, ui >>

\* mutant: the loop also goes on while the queue holds a buffer
AudioCheck_Drain ==
    /\ audio_pc = "check"
    /\ audio_pc' = IF running \/ audio_queue # <<>> THEN "get" ELSE "finished"
    /\ UNCHANGED << pipeVars, stopPlays, audio_queue, unfinished, running, cur, device,
                    overlap, enqueued, late, plays >>

\* while self.running
AudioCheck ==
    /\ audio_pc = "check"
    /\ audio_pc' = IF running THEN "get" ELSE "finished"
    /\ UNCHANGED << pipeVars, stopPlays, audio_queue, unfinished, running, cur, device,
                    overlap, enqueued, late, plays >>

\* mutant: the queue hands out its newest entry (a LIFO queue)
AudioGet_Lifo ==
    /\ audio_pc = "get"
    /\ audio_queue # <<>>
    /\ cur' = audio_queue[Len(audio_queue)]
    /\ audio_queue' = SubSeq(audio_queue, 1, Len(audio_queue) - 1)
    /\ audio_pc' = "play"
    /\ UNCHANGED << pipeVars, stopPlays, unfinished, running, device, overlap, enqueued,
                    late, plays >>

\* audio_queue.get(timeout=1) returns the oldest entry
AudioGet ==
    /\ audio_pc = "get"
    /\ audio_queue # <<>>
    /\ cur' = Head(audio_queue)
    /\ audio_queue' = Tail(audio_queue)
    /\ audio_pc' = "play"
    /\ UNCHANGED << pipeVars, stopPlays, unfinished, running, device, overlap, enqueued,
                    late, plays >>

\* mutant: get() without a timeout: an empty queue blocks run() for good
AudioGetEmpty_NoTimeout ==
    /\ audio_pc = "get"
    /\ audio_queue = <<>>
    /\ FALSE
    /\ UNCHANGED vars

\* audio_queue.get(timeout=1) raises queue.Empty: continue
AudioGetEmpty ==
    /\ audio_pc = "get"
    /\ audio_queue = <<>>
    /\ audio_pc' = "check"
    /\ UNCHANGED << pipeVars, stopPlays, audio_queue, unfinished, running, cur, device,
                    overlap, enqueued, late, plays >>

\* sd.play(samples, sample_rate): the device starts playing and the call
\* returns; a stream that was still playing is cut off
AudioPlay ==
    /\ audio_pc = "play"
    /\ plays' = Append(plays, cur)
    /\ overlap' = (overlap \/ device # 0)
    /\ device' = cur
    /\ audio_pc' = "wait"
    /\ UNCHANGED << pipeVars, stopPlays, audio_queue, unfinished, running, cur, enqueued,
                    late >>

\* sd.play raises (a PortAudio error): no handler in run() catches it, the
\* exception leaves run() and the worker thread is gone
AudioPlayError ==
    /\ audio_pc = "play"
    /\ plays' = Append(plays, cur)
    /\ audio_pc' = "dead"
    /\ UNCHANGED << pipeVars, stopPlays, audio_queue, unfinished, running, cur, device,
                    overlap, enqueued, late >>

\* the output device reaches the end of the buffer it is playing
DeviceDone ==
    /\ device # 0
    /\ device' = 0
    /\ UNCHANGED << pipeVars, stopPlays, audio_queue, unfinished, running, audio_pc, cur,
                    overlap, enqueued, late, plays >>

\* mutant: run() without sd.wait(): it goes on while the device plays
AudioWait_NoWait ==
    /\ audio_pc = "wait"
    /\ unfinished' = unfinished - 1
    /\ cur' = 0
    /\ audio_pc' = "check"
    /\ UNCHANGED << pipeVars, stopPlays, audio_queue, running, device, overlap, enqueued,
                    late, plays >>

\* sd.wait() returns once the device has finished; then task_done()
AudioWait ==
    /\ audio_pc = "wait"
    /\ device = 0
    /\ unfinished' = unfinished - 1
    /\ cur' = 0
    /\ audio_pc' = "check"
    /\ UNCHANGED << pipeVars, stopPlays, audio_queue, running, device, overlap, enqueued,
                    late, plays >>

\* ------------------------------------------- TTSApp.closeEvent, AudioThread.stop
\* closeEvent calls audio_thread.stop(): running = False, quit() (run() has no
\* event loop: no effect), then wait()
stop ==
    /\ ui = "loop"
    /\ running' = FALSE
    /\ stopPlays' = Len(plays)
    /\ ui' = "stop_wait"
    /\ UNCHANGED << kokoro, prefVars, lastSubmit, log, tts, events, uiErrors,
                    audio_queue, unfinished, audio_pc, cur, device, overlap,
                    enqueued, late, plays >>

\* mutant: stop() that does not join: wait() returns at once
stopReturn_NoJoin ==
    /\ ui = "stop_wait"
    /\ ui' = "close_tts"
    /\ UNCHANGED << kokoro, prefVars, lastSubmit, log, tts, events, uiErrors,
                    audioVars >>

\* self.wait() returns when run() has returned (or was left by an exception)
stopReturn ==
    /\ ui = "stop_wait"
    /\ audio_pc \in {"finished", "dead"}
    /\ ui' = "close_tts"
    /\ UNCHANGED << kokoro, prefVars, lastSubmit, log, tts, events, uiErrors,
                    audioVars >>

\* if hasattr(self, "tts_thread") and self.tts_thread.isRunning(): quit(), wait()
\* self.tts_thread is the TTSThread created last
closeEventTts ==
    /\ ui = "close_tts"
    /\ ui' = IF tts # <<>> /\ tts[Len(tts)].st = "running"
             THEN "tts_wait" ELSE "closed"
    /\ UNCHANGED << kokoro, prefVars, lastSubmit, log, tts, events, uiErrors,
                    audioVars >>

\* tts_thread.wait() returns; event.accept()
closeEventAccept ==
    /\ ui = "tts_wait"
    /\ tts[Len(tts)].st # "running"
    /\ ui' = "closed"
    /\ UNCHANGED << kokoro, prefVars, lastSubmit, log, tts, events, uiErrors,
                    audioVars >>

\* ------------------------------------------------------ TTSApp.save_config
\* Called at the end of a change handler: it reads the widgets as they are
\* after the change and rewrites config.json
save_config ==
    config_file' = [kind |-> "object",
                    data |-> [voice1 |-> voice1_combo',
                              voice2 |-> voice2_combo',
                              blend  |-> blend_slider']]

\* the values the user can move the slider to (setMinimum(0), setMaximum(100))
BlendValues == {0, 30, 50, 70, 100}

\* the user picks another item of voice1_combo: currentTextChanged -> save_config
voice1_changed(v) ==
    /\ ui = "loop"
    /\ \E i \in 1..Len(voices) : voices[i] = v
    /\ v # voice1_combo
    /\ voice1_combo' = v
    /\ UNCHANGED << voice2_combo, blend_slider >>
    /\ save_config
    /\ UNCHANGED << kokoro, voices, lastSubmit, log, tts, events, uiErrors, ui,
                    audioVars >>

\* the user picks another item of voice2_combo: currentTextChanged -> save_config
voice2_changed(v) ==
    /\ ui = "loop"
    /\ \E i \in 1..Len(voices) : voices[i] = v
    /\ v # voice2_combo
    /\ voice2_combo' = v
    /\ UNCHANGED << voice1_combo, blend_slider >>
    /\ save_config
    /\ UNCHANGED << kokoro, voices, lastSubmit, log, tts, events, uiErrors, ui,
                    audioVars >>

\* mutant: the handler only sets the label text
update_blend_label_NoSave(b) ==
    /\ ui = "loop"
    /\ b # blend_slider
    /\ blend_slider' = b
    /\ UNCHANGED << voice1_combo, voice2_combo, config_file >>
    /\ UNCHANGED << kokoro, voices, lastSubmit, log, tts, events, uiErrors, ui,
                    audioVars >>

\* the user moves the slider: valueChanged -> update_blend_label, which sets
\* the label text and calls save_config
update_blend_label(b) ==
    /\ ui = "loop"
    /\ b # blend_slider
    /\ blend_slider' = b
    /\ UNCHANGED << voice1_combo, voice2_combo >>
    /\ save_config
    /\ UNCHANGED << kokoro, voices, lastSubmit, log, tts, events, uiErrors, ui,
                    audioVars >>

Next ==
    \/ load_kokoro
    \/ \E t \in Inputs : handle_input(t)
    \/ \E i \in 1..Len(tts) : TTSRun(i)
    \/ \E i \in 1..Len(tts) : TTSRunError(i)
    \/ play_audio_output
    \/ AudioCheck
    \/ AudioGet
    \/ AudioGetEmpty
    \/ AudioPlay
    \/ AudioPlayError
    \/ DeviceDone
    \/ AudioWait
    \/ stop
    \/ stopReturn
    \/ closeEventTts
    \/ closeEventAccept

Spec == Init /\ [][Next]_vars

\* ------------------------------------------------------------ preferences
\* The preference handlers with a single dispatched utterance: the changes of
\* the selections, the capture of the selections by play_audio and the blend
\* computed by TTSThread.run
PrefInputs == { <<"a">> }

PrefNext ==
    \/ load_kokoro
    \/ \E v \in Bank \cup {"zz"} : voice1_changed(v)
    \/ \E v \in Bank \cup {"zz"} : voice2_changed(v)
    \/ \E b \in BlendValues : update_blend_label(b)
    \/ \E t \in PrefInputs : tts = <<>> /\ handle_input(t)
    \/ \E i \in 1..Len(tts) : TTSRun(i)
    \/ \E i \in 1..Len(tts) : TTSRunError(i)

PrefSpec == Init /\ [][PrefNext]_vars

\* ------------------------------------------------------------ sanitization
\* handle_input on every text of at most MaxLen characters over an alphabet
\* with a word character, a space, a punctuation mark the pattern keeps and a
\* character it removes: the first Return of a run
MaxLen == 3

Alphabet == {"a", " ", "!", "<"}

Texts == UNION { [1..n -> Alphabet] : n \in 0..MaxLen }

InputNext ==
    \/ load_kokoro
    \/ \E t \in Texts : lastSubmit = NoInput /\ handle_input(t)

InputSpec == Init /\ [][InputNext]_vars

\* The operating system schedules the playback worker, the device finishes the
\* buffer it plays and a wait() whose thread has ended returns.
FairSpec ==
    /\ Spec
    /\ WF_vars(AudioCheck)
    /\ WF_vars(AudioGet)
    /\ WF_vars(AudioGetEmpty)
    /\ WF_vars(AudioPlay \/ AudioPlayError)
    /\ WF_vars(DeviceDone)
    /\ WF_vars(AudioWait)
    /\ WF_vars(stopReturn)

TypeOK ==
    /\ kokoro \in {"None", "Ready"}
    /\ ui \in {"loop", "stop_wait", "close_tts", "tts_wait", "closed", "crashed"}
    /\ audio_pc \in {"unstarted", "check", "get", "play", "wait", "finished", "dead"}
    /\ Len(log) <= MaxUtter
    /\ unfinished \in 0..MaxUtter

\* ------------------------------------------------------------ helpers
Range(s) == { s[i] : i \in 1..Len(s) }

\* the entry run() holds between get() and the play call
Pending == IF audio_pc = "play" THEN << cur >> ELSE <<>>

\* ------------------------------------------------------------------ C1
\* C1: while the worker runs and no stop() was issued, the play calls the
\* device has received are the buffers passed to add_to_queue, in that order,
\* each once; the only buffers without a play call are the one run() holds
\* and those still pending, so a worker waiting on an empty queue has made
\* exactly one play call per buffer.
C1_PlaysFollowEnqueueOrder ==
    (running /\ audio_pc \notin {"dead", "finished"}) =>
        /\ enqueued = plays \o Pending \o audio_queue
        /\ (audio_pc = "get" /\ audio_queue = <<>>) => plays = enqueued

\* two buffers enqueued against submission order and both played, worker idle
C1_Witness ==
    /\ running
    /\ audio_pc = "get"
    /\ audio_queue = <<>>
    /\ enqueued = << 2, 1 >>
    /\ plays = << 2, 1 >>

\* ------------------------------------------------------------------ C2
\* C2: buffers are played in the order their utterances were submitted (the
\* buffer of the i-th TTSThread is named i), whatever the order in which the
\* TTSThreads finish.
C2_PlaysInSubmissionOrder ==
    \A i, j \in 1..Len(plays) : i < j => plays[i] < plays[j]

\* ------------------------------------------------------------------ C3
\* C3: at most one play call is in progress: a play call never begins while
\* the device is still playing the buffer of the previous play call.
C3_OnePlayAtATime ==
    /\ ~overlap
    /\ audio_pc = "play" => device = 0

\* a second play call is about to begin while a TTSThread is still at work
C3_Witness ==
    /\ audio_pc = "play"
    /\ Len(plays) >= 1
    /\ \E i \in 1..Len(tts) : tts[i].st = "running"

\* ------------------------------------------------------------------ C4
\* stop() has returned to closeEvent
StopReturned == ui \in {"close_tts", "tts_wait", "closed"}

\* the worker is idle: nothing pending, nothing held by run(), device silent
IdleWorker ==
    /\ audio_queue = <<>>
    /\ audio_pc \in {"check", "get"}
    /\ device = 0

\* C4: a stop() that finds the worker idle returns, and once stop() has
\* returned the device receives no further play call, whatever is passed to
\* add_to_queue afterwards.
C4_StopIdleReturnsAndSilences ==
    /\ (ui = "stop_wait" /\ IdleWorker) ~> StopReturned
    /\ [][StopReturned => plays' = plays]_vars

\* stop() met an idle worker that had played nothing, returned, and a buffer
\* was passed to add_to_queue afterwards: it stays in the queue
C4_Witness ==
    /\ ui = "closed"
    /\ plays = <<>>
    /\ audio_pc = "finished"
    /\ audio_queue # <<>>
    /\ audio_queue = enqueued

\* ------------------------------------------------------------------ C5
\* C5: a buffer passed to add_to_queue after stop() cleared the running flag
\* is never handed to the device, nor taken from the queue by run().
C5_LateBufferNeverPlayed ==
    \A b \in late : b \notin Range(plays) /\ cur # b

\* a TTSThread finished after shutdown began; its buffer was enqueued once
\* closeEvent had returned, behind buffers that were played before
C5_Witness ==
    /\ ui = "closed"
    /\ plays # <<>>
    /\ late # {}
    /\ \E b \in late : b \in Range(audio_queue)

\* ------------------------------------------------------------------ C6
\* C6: a device error raised by a play call leaves the playback worker
\* alive, so that it goes on with the entries enqueued after the failing one.
C6_DeviceErrorNotFatal ==
    audio_pc # "dead"

\* ------------------------------------------------------------------ C7
\* C7: a TTSThread whose synthesis raised delivers no buffer (nothing is
\* emitted, nothing enqueued for it); the failing step starts no new thread
\* and changes neither the other threads, the queued deliveries, the pending
\* queue nor the playback worker.
C7_FailedSynthesisDropsOnlyItself ==
    /\ [](\A i \in 1..Len(tts) :
            tts[i].st = "failed" =>
                i \notin Range(events) \cup Range(enqueued) \cup Range(audio_queue))
    /\ [][\A i \in 1..Len(tts) :
            (tts[i].st = "running" /\ tts'[i].st = "failed") =>
                /\ tts' = [tts EXCEPT ![i].st = "failed"]
                /\ UNCHANGED << events, audioVars, log, uiErrors >>]_vars

\* the second of three requests failed; the first and the third were enqueued
C7_Witness ==
    /\ Len(tts) = 3
    /\ tts[2].st = "failed"
    /\ 1 \in Range(enqueued)
    /\ 3 \in Range(enqueued)

\* ------------------------------------------------------------------ C8
\* C8: as long as load_kokoro has not completed, a submission raises no
\* error into the GUI thread, starts no TTSThread and enqueues nothing.
C8_NotReadyDropsQuietly ==
    kokoro = "None" => (uiErrors = <<>> /\ tts = <<>> /\ enqueued = <<>>)

\* ------------------------------------------------------------------ C9
\* C9: whenever handle_input has returned, the utterances logged are exactly
\* the utterances dispatched: the i-th log line has the i-th TTSThread, with
\* the same text.
C9_LoggedIffDispatched ==
    /\ Len(tts) = Len(log)
    /\ \A i \in 1..Len(tts) : tts[i].utt = i /\ tts[i].text = log[i]

\* ------------------------------------------------------------------ C10
\* empty or whitespace-only
Blank(t) == \A i \in 1..Len(t) : IsSpace(t[i])

\* C10: a Return pressed on an empty or whitespace-only text appends nothing
\* to the log, creates no TTSThread and leaves the queued deliveries and the
\* pending playback queue as they were.
C10_BlankSubmitChangesNothing ==
    [][\A t \in Inputs :
          (Blank(t) /\ handle_input(t)) =>
              UNCHANGED << log, tts, uiErrors, events, audio_queue, enqueued >>]_vars

\* Return was last pressed on a single space, after one utterance was logged
\* and dispatched: the space added nothing
C10_Witness ==
    /\ lastSubmit = << " " >>
    /\ Len(log) = 1
    /\ Len(tts) = 1

\* ------------------------------------------------------------------ C11
\* nothing is left for the pipeline to do: no delivery is queued and the
\* worker either waits on an empty queue or is gone
PipelineAtRest ==
    /\ events = <<>>
    /\ \/ audio_pc = "dead"
       \/ audio_pc = "get" /\ audio_queue = <<>>

\* C11: without shutdown, once the pipeline has nothing left to do, the buffer
\* of every utterance whose synthesis succeeded has had exactly one play call.
C11_SynthesizedBufferPlayedOnce ==
    (running /\ PipelineAtRest) =>
        \A i \in 1..Len(tts) :
            tts[i].st = "finished" =>
                Cardinality({ k \in 1..Len(plays) : plays[k] = i }) = 1

\* ------------------------------------------------------------------ C12
\* C12: from any state of the worker stop() returns; when it has returned
\* run() has ended, and if it ended by leaving its loop, the play call that was
\* in flight was completed: the device is silent and task_done was called for
\* every entry taken from the queue.
C12_StopIsCleanJoin ==
    /\ (ui = "stop_wait") ~> StopReturned
    /\ [](StopReturned =>
            /\ audio_pc \in {"finished", "dead"}
            /\ device = 0
            /\ audio_pc = "finished" => (cur = 0 /\ unfinished = Len(audio_queue)))

\* stop() has cleared running and waits while a play call is in flight
C12_Witness ==
    /\ ui = "stop_wait"
    /\ audio_pc = "wait"
    /\ device # 0

\* ------------------------------------------------------------------ C13
\* C13: when closeEvent has completed, the playback worker has ended and no
\* TTSThread is still at work, however many were in flight when it began.
C13_CloseAwaitsEverySynthesis ==
    ui = "closed" =>
        /\ audio_pc \in {"finished", "dead"}
        /\ \A i \in 1..Len(tts) : tts[i].st # "running"

\* ------------------------------------------------------------------ C14
\* a call of add_to_queue(b) by whatever thread, on its own
AddToQueueCall(b) ==
    /\ add_to_queue(b)
    /\ UNCHANGED << pipeVars, running, audio_pc, cur, device, overlap, plays,
                    stopPlays >>

\* C14: in every state of the playback worker and for every length of the
\* pending queue a call of add_to_queue can complete, and a step that enqueues
\* appends its buffer to the tail of the pending sequence and touches neither
\* the worker nor the device.
C14_AddToQueueNeverBlocks ==
    /\ [](ui # "crashed" => \A b \in 1..MaxUtter : ENABLED AddToQueueCall(b))
    /\ [][enqueued' # enqueued =>
            /\ \E b \in 1..MaxUtter :
                  /\ audio_queue' = Append(audio_queue, b)
                  /\ enqueued' = Append(enqueued, b)
            /\ UNCHANGED << running, audio_pc, cur, device, plays >>]_vars

\* a third buffer was appended behind a pending one while the worker plays
C14_Witness ==
    /\ audio_pc = "wait"
    /\ device # 0
    /\ Len(audio_queue) = 2
    /\ Len(enqueued) = 3

\* ------------------------------------------------------------------ C15
\* the characters the claim allows, written out
C15_AllowedChars == {"a", " ", ".", ",", "!", "?", "\"", "'"}

RECURSIVE IsSubseq(_, _)
\* s is t with some characters deleted, the rest in their order
IsSubseq(s, t) ==
    IF s = <<>> THEN TRUE
    ELSE IF t = <<>> THEN FALSE
    ELSE IF Head(s) = Head(t) THEN IsSubseq(Tail(s), Tail(t))
    ELSE IsSubseq(s, Tail(t))

\* C15: a text that was logged or dispatched for synthesis holds only word
\* characters, whitespace and the punctuation . , ! ? " ' and is the submitted
\* text with characters deleted, the surviving ones in their order.
C15_SanitizedTextAllowedInOrder ==
    /\ \A k \in 1..Len(log) :
          /\ \A j \in 1..Len(log[k]) : log[k][j] \in C15_AllowedChars
          /\ IsSubseq(log[k], lastSubmit)
    /\ \A i \in 1..Len(tts) :
          /\ \A j \in 1..Len(tts[i].text) : tts[i].text[j] \in C15_AllowedChars
          /\ IsSubseq(tts[i].text, lastSubmit)

\* a character in the middle was removed and the text was dispatched
C15_Witness ==
    /\ lastSubmit = <<"a", "<", "!">>
    /\ log = << <<"a", "!">> >>
    /\ Len(tts) = 1
    /\ tts[1].text = <<"a", "!">>

\* ------------------------------------------------------------------ C16
\* C16: the voice given to the synthesizer is voice1 * b + voice2 * (1 - b)
\* with b the blend percentage over 100 (here a hundred times that vector),
\* so 100% gives the first voice and 0% the second; voice1, voice2 and the
\* percentage are the selections at the moment of submission, whatever the
\* selections are when the synthesis runs.
C16_BlendOfCapturedSelections ==
    /\ [](\A i \in 1..Len(tts) :
            tts[i].st = "finished" =>
                LET b  == tts[i].blend_value
                    v1 == tts[i].voice1
                    v2 == tts[i].voice2
                    w  == tts[i].blended
                IN /\ Len(w) = Len(v1)
                   /\ \A k \in 1..Len(w) : w[k] = v1[k] * b + v2[k] * (100 - b)
                   /\ b = 100 => \A k \in 1..Len(w) : w[k] = 100 * v1[k]
                   /\ b = 0 => \A k \in 1..Len(w) : w[k] = 100 * v2[k])
    /\ [][/\ Len(tts') > Len(tts) =>
                LET r == tts'[Len(tts')]
                IN /\ r.blend_value = blend_slider
                   /\ r.voice1 = get_voice_style(voice1_combo)
                   /\ r.voice2 = get_voice_style(voice2_combo)
          /\ \A i \in 1..Len(tts) :
                /\ tts'[i].blend_value = tts[i].blend_value
                /\ tts'[i].voice1 = tts[i].voice1
                /\ tts'[i].voice2 = tts[i].voice2]_vars

\* two different voices were blended at 30% although the slider was moved to
\* 100% and the first selection changed before the synthesis ran
C16_Witness ==
    /\ Len(tts) = 1
    /\ tts[1].st = "finished"
    /\ tts[1].blend_value = 30
    /\ tts[1].voice1 = << 100, 0 >>
    /\ tts[1].voice2 = << 0, 200 >>
    /\ tts[1].blended = << 3000, 14000 >>
    /\ blend_slider = 100
    /\ voice1_combo = "am"

\* ------------------------------------------------------------------ C17
\* C17: with a configuration file that is absent or does not hold a
\* well-formed configuration, startup completes and the selections are the
\* defaults: the first voice, the second voice and a blend of 50.
C17_BadConfigGivesDefaults ==
    (config_file.kind # "object" /\ Len(voices) >= 2) =>
        /\ ui # "crashed"
        /\ voice1_combo = voices[1]
        /\ voice2_combo = voices[2]
        /\ blend_slider = 50

\* ------------------------------------------------------------------ C18
\* the configuration file that holds exactly the live selections
LiveSelections ==
    [kind |-> "object",
     data |-> [voice1 |-> voice1_combo,
               voice2 |-> voice2_combo,
               blend  |-> blend_slider]]

\* C18: when a handler that changed voice1, voice2 or the blend has returned,
\* the persisted configuration equals the live selections, and once it equals
\* them no step makes the two differ: after any sequence of changes the file
\* holds the current selections.
C18_PersistedEqualsLive ==
    [][( \/ voice1_combo' # voice1_combo
         \/ voice2_combo' # voice2_combo
         \/ blend_slider' # blend_slider
         \/ config_file = LiveSelections )
       => config_file' = LiveSelections']_vars

\* all three selections were changed, the slider last, and the file follows
C18_Witness ==
    /\ voice1_combo = "am"
    /\ voice2_combo = "am"
    /\ blend_slider = 70
    /\ config_file = LiveSelections

\* ------------------------------------------------------------------ C19
\* C19: once stop() has cleared the running flag at most one further buffer
\* begins playing, and when run() has ended the buffers that were not played
\* are still in the queue, in their order, and stay there: an ended worker
\* plays and dequeues nothing.
C19_AtMostOnePlayAfterStop ==
    /\ []((~running /\ stopPlays >= 0) =>
            /\ Len(plays) <= stopPlays + 1
            /\ audio_pc \in {"finished", "dead"} =>
                  enqueued = plays \o audio_queue)
    /\ [][(audio_pc \in {"finished", "dead"}) =>
            ( /\ plays' = plays
              /\ audio_pc' = audio_pc
              /\ Len(audio_queue') >= Len(audio_queue)
              /\ SubSeq(audio_queue', 1, Len(audio_queue)) = audio_queue )]_vars

\* stop() came while the worker was past its loop check: one more buffer was
\* played, run() ended and a buffer enqueued before stop() is left unplayed
C19_Witness ==
    /\ ~running
    /\ stopPlays >= 0
    /\ Len(plays) = stopPlays + 1
    /\ audio_pc = "finished"
    /\ audio_queue # <<>>
    /\ late = {}

\* ------------------------------------------------------------------ C20
\* C20: every text appended to the log or dispatched for synthesis holds at
\* least one character that is not whitespace, whatever was submitted.
C20_LoggedTextNotBlank ==
    /\ \A k \in 1..Len(log) : \E j \in 1..Len(log[k]) : ~IsSpace(log[k][j])
    /\ \A i \in 1..Len(tts) :
          \E j \in 1..Len(tts[i].text) : ~IsSpace(tts[i].text[j])

====
